---- MODULE Spec2Model ----
(***************************************************************************)
(* A model of src/server.py: the batch_save tool (input coercion, output   *)
(* root resolution, the per-URL fetch / path derivation / collision        *)
(* resolution / write loop, the index.md rebuild and the returned result)  *)
(* and the map_links tool (the anchor filter).                             *)
(*                                                                         *)
(* The file system is a function from absolute, resolved paths (sequences  *)
(* of names below "/") to entries; the process runs with "/" as its        *)
(* working directory.  Names are strings; a URL path segment is a sequence *)
(* of tokens whose concatenation is the segment, so that the suffix        *)
(* stripping of line 293 and the ':' replacement of line 285 are computed. *)
(***************************************************************************)
EXTENDS Naturals, Sequences, FiniteSets, TLC

VARIABLES
    fs,         \* the file system: resolved path -> entry
    pc,         \* position of batch_save: idle | loop | index | returned | raised
    shape,      \* what the shape test made of 'urls': "list" after line 260
    urls,       \* the local 'urls' after coercion (line 260)
    base_path,  \* the local 'base_path' (line 271), raw components
    i,          \* 1-based position of the for loop of line 273
    results,    \* the local 'results' (line 266)
    ret,        \* the value returned by the call
    batch,      \* number of batch_save calls started so far
    submitted,  \* number of URLs handed to batch_save so far
    fs0,        \* ghost: the file system when the running call started
    trace,      \* ghost: per processed URL, what the fetch and the stages did
    run,        \* ghost: summary of the saves since the empty output root
    indexWrite, \* ghost: what the environment did to the index write of this call
    anchors,    \* map_links: the anchors (href, text) of the fetched page
    k,          \* map_links: 1-based position of the loop of line 232
    links,      \* map_links: the local 'links' as an insertion-ordered list
    mlpc,       \* map_links: fetch | scan | returned
    mlret       \* map_links: the returned value

vars == <<fs, pc, shape, urls, base_path, i, results, ret, batch, submitted,
          fs0, trace, run, indexWrite, anchors, k, links, mlpc, mlret>>

bsVars == <<fs, pc, shape, urls, base_path, i, results, ret, batch, submitted,
            fs0, trace, run, indexWrite>>

mlVars == <<anchors, k, links, mlpc, mlret>>

(***************************************************************************)
(* Bounds of the model.                                                    *)
(***************************************************************************)
MaxUrls == 2

MaxBatches == 2

MaxTotalUrls == 3

MaxAnchors == 2

(***************************************************************************)
(* Sequence helpers.                                                       *)
(***************************************************************************)
Range(s) == {s[j] : j \in DOMAIN s}

Last(s) == s[Len(s)]

Front(s) == SubSeq(s, 1, Len(s) - 1)

IsPrefix(p, s) == Len(p) <= Len(s) /\ SubSeq(s, 1, Len(p)) = p

RECURSIVE Concat(_)
Concat(toks) == IF toks = <<>> THEN "" ELSE Head(toks) \o Concat(Tail(toks))

SeqsUpTo(S, n) == UNION {[1..m -> S] : m \in 0..n}

IsInjective(s) == \A a, b \in DOMAIN s : s[a] = s[b] => a = b

(***************************************************************************)
(* URLs.  A URL is what urlparse (line 282) makes of it: its netloc as a   *)
(* token sequence and its path as the list of '/'-separated segments, each *)
(* a token sequence (<<>> is an empty segment, as in "/a//b/").            *)
(***************************************************************************)
Url(netloc, path) == [netloc |-> netloc, path |-> path]

UrlX == Url(<<"a.com">>, << <<"x">> >>)                          \* http://a.com/x

UrlXHtml == Url(<<"a.com">>, << <<"x", ".html">> >>)             \* http://a.com/x.html

UrlUpIndex == Url(<<"a.com">>, << <<"..">>, <<"index">> >>)      \* http://a.com/../index

UrlUpUpX == Url(<<"a.com">>, << <<"..">>, <<"..">>, <<"x">> >>)  \* http://a.com/../../x

UrlPort == Url(<<"a.com", ":", "8080">>, << <<>>, <<".php">>, <<>> >>)  \* http://a.com:8080//.php/

UrlNoHost == Url(<<>>, << <<"x">> >>)                            \* http:///x

Urls == {UrlX, UrlXHtml, UrlUpIndex, UrlUpUpX, UrlPort, UrlNoHost}

\* the urls whose page has no <title>
Untitled == {UrlXHtml, UrlPort}

(***************************************************************************)
(* Path derivation, lines 282-298.                                         *)
(***************************************************************************)
\* parsed_url.netloc as a string
Netloc(url) == Concat(url.netloc)

\* line 285: parsed_url.netloc.replace(':', '_')
domain_dir(url) ==
    Concat([j \in DOMAIN url.netloc |->
                IF url.netloc[j] = ":" THEN "_" ELSE url.netloc[j]])

\* lines 288-290: the non-empty segments, or ['index']
path_parts(url) ==
    LET parts == SelectSeq(url.path, LAMBDA seg : seg # <<>>)
    IN  IF parts = <<>> THEN << <<"index">> >> ELSE parts

\* lines 293-295: the last segment without '.html' and '.php', or 'index'
filename(url) ==
    LET last == Last(path_parts(url))
        noHtml == SelectSeq(last, LAMBDA t : t # ".html")
        noPhp == SelectSeq(noHtml, LAMBDA t : t # ".php")
    IN  IF Concat(noPhp) = "" THEN "index" ELSE Concat(noPhp)

\* os.path.join: an empty component adds nothing
PathJoin(comps) == SelectSeq(comps, LAMBDA c : c # "")

\* line 298: os.path.join(base_path, domain_dir, *path_parts[:-1]), unresolved
file_dir(url, base) ==
    LET dirs == Front(path_parts(url))
    IN  PathJoin(base \o <<domain_dir(url)>> \o [j \in DOMAIN dirs |-> Concat(dirs[j])])

(***************************************************************************)
(* The file system.  "/" (the path <<>>) always exists and is a directory. *)
(***************************************************************************)
DirEntry == [kind |-> "dir"]

FileEntry(content) == [kind |-> "file", content |-> content]

Exists(f, p) == p = <<>> \/ p \in DOMAIN f

IsDir(f, p) == p = <<>> \/ (p \in DOMAIN f /\ f[p].kind = "dir")

IsFile(f, p) == p \in DOMAIN f /\ f[p].kind = "file"

Parent(p) == IF p = <<>> THEN <<>> ELSE Front(p)

Put(f, p, e) == [q \in DOMAIN f \cup {p} |-> IF q = p THEN e ELSE f[q]]

\* The location a path of existing directories names: '.' stays, '..' goes up.
RECURSIVE ResolveFrom(_, _)
ResolveFrom(cur, comps) ==
    IF comps = <<>> THEN cur
    ELSE LET c == Head(comps)
         IN  IF c = "." THEN ResolveFrom(cur, Tail(comps))
             ELSE IF c = ".." THEN ResolveFrom(Parent(cur), Tail(comps))
             ELSE ResolveFrom(cur \o <<c>>, Tail(comps))

Resolve(comps) == ResolveFrom(<<>>, comps)

\* os.makedirs(path, exist_ok=True), lines 189 and 299: every missing prefix is
\* created in turn; a prefix that is a file raises; with 'denied' the first mkdir
\* of a missing directory raises.  Directories made before the failure stay.
RECURSIVE MakeDirsFrom(_, _, _, _)
MakeDirsFrom(f, cur, comps, denied) ==
    IF comps = <<>> THEN [ok |-> TRUE, fs |-> f, error |-> ""]
    ELSE LET c == Head(comps)
             t == cur \o <<c>>
         IN  IF c = "." THEN MakeDirsFrom(f, cur, Tail(comps), denied)
             ELSE IF c = ".." THEN MakeDirsFrom(f, Parent(cur), Tail(comps), denied)
             ELSE IF IsDir(f, t) THEN MakeDirsFrom(f, t, Tail(comps), denied)
             ELSE IF IsFile(f, t)
                  THEN [ok |-> FALSE, fs |-> f,
                        error |-> IF Len(comps) = 1 THEN "FileExistsError"
                                                   ELSE "NotADirectoryError"]
             ELSE IF denied THEN [ok |-> FALSE, fs |-> f, error |-> "PermissionError"]
             ELSE MakeDirsFrom(Put(f, t, DirEntry), t, Tail(comps), denied)

makedirs(f, comps, denied) == MakeDirsFrom(f, <<>>, comps, denied)

\* line 302: f"{filename}.md"
first_name(stem) == stem \o ".md"

\* line 305: f"{filename}_{counter}.md"
numbered_name(stem, counter) == stem \o "_" \o ToString(counter) \o ".md"

\* the while loop of lines 304-306, entered with 'name' as the candidate
RECURSIVE Probe(_, _, _, _, _)
Probe(f, dir, stem, name, counter) ==
    IF Exists(f, dir \o <<name>>)
    THEN Probe(f, dir, stem, numbered_name(stem, counter), counter + 1)
    ELSE name

\* the counter started at 0 instead of 1
unique_name_from_zero(f, dir, stem) == Probe(f, dir, stem, first_name(stem), 0)

\* lines 302-306: the first candidate that os.path.exists does not find
unique_name(f, dir, stem) == Probe(f, dir, stem, first_name(stem), 1)

(***************************************************************************)
(* Writing files.                                                          *)
(***************************************************************************)
Truncated == [type |-> "truncated"]

\* open(p, 'w'), lines 326 and 365: creates or truncates the file
open_w(f, p, denied) ==
    IF ~IsDir(f, Parent(p)) THEN [ok |-> FALSE, fs |-> f, error |-> "FileNotFoundError"]
    ELSE IF IsDir(f, p) THEN [ok |-> FALSE, fs |-> f, error |-> "IsADirectoryError"]
    ELSE IF denied THEN [ok |-> FALSE, fs |-> f, error |-> "PermissionError"]
    ELSE [ok |-> TRUE, fs |-> Put(f, p, FileEntry(Truncated)), error |-> ""]

\* what the environment may do to one open-and-write
WriteResults == {"ok", "open_fails", "write_fails"}

\* with open(p, 'w') as f: f.write(content), lines 326-327 and 365-366
write_file(f, p, content, wr) ==
    LET o == open_w(f, p, wr = "open_fails")
    IN  IF ~o.ok THEN o
        ELSE IF wr = "write_fails"
             THEN [ok |-> FALSE, fs |-> o.fs, error |-> "OSError: No space left on device"]
        ELSE [ok |-> TRUE, fs |-> Put(o.fs, p, FileEntry(content)), error |-> ""]

(***************************************************************************)
(* One iteration of the loop of lines 273-341.                             *)
(***************************************************************************)
\* requests.get (line 276) raises on a URL without a host and on a network
\* failure, and returns the response whatever its status; the parse and the
\* conversion of lines 277-278 may raise.
FetchResults(url) ==
    IF url.netloc = <<>> THEN {"invalid_url"}
    ELSE {"ok", "http_error", "network_failure", "parse_error"}

FetchRaises == {"invalid_url", "network_failure"}

\* lines 329-334
SavedOutcome(url, path, title) ==
    [url |-> url, status |-> "saved", path |-> path, title |-> title]

\* lines 337-341
ErrorOutcome(url, e) == [url |-> url, status |-> "error", error |-> e]

\* lines 314-323: the metadata header and the converted page (date_saved left out)
Document(url, title) == [type |-> "doc", url |-> url, title |-> title]

\* line 309: soup.title.string if soup.title else filename
page_title(url) == IF url \in Untitled THEN filename(url) ELSE "Title"

\* lines 302-306 on the directory just made: the path written, unresolved
filepath(f, url, base) ==
    file_dir(url, base) \o <<unique_name(f, Resolve(file_dir(url, base)), filename(url))>>

\* lines 274-341 for one url: the file system after it, the outcome appended
\* to 'results', and the stage that raised ("none" when the file was saved)
SaveOne(f, url, base, fetch, denied, wr) ==
    IF fetch \in FetchRaises
    THEN [fs |-> f, outcome |-> ErrorOutcome(url, fetch), failed |-> "fetch"]
    ELSE IF fetch = "parse_error"
    THEN [fs |-> f, outcome |-> ErrorOutcome(url, fetch), failed |-> "parse"]
    ELSE LET md == makedirs(f, file_dir(url, base), denied)
         IN  IF ~md.ok
             THEN [fs |-> md.fs, outcome |-> ErrorOutcome(url, md.error), failed |-> "mkdir"]
             ELSE LET path == filepath(md.fs, url, base)
                      title == page_title(url)
                      w == write_file(md.fs, Resolve(path), Document(url, title), wr)
                  IN  IF ~w.ok
                      THEN [fs |-> w.fs, outcome |-> ErrorOutcome(url, w.error),
                            failed |-> IF wr = "open_fails" THEN "open" ELSE "write"]
                      ELSE [fs |-> w.fs, outcome |-> SavedOutcome(url, path, title),
                            failed |-> "none"]

(***************************************************************************)
(* The index, lines 343-369.                                               *)
(***************************************************************************)
\* os.path.relpath(path, start), line 360, on resolved paths
RECURSIVE RelPath(_, _)
RelPath(p, start) ==
    IF start # <<>> /\ p # <<>> /\ Head(p) = Head(start) THEN RelPath(Tail(p), Tail(start))
    ELSE [j \in 1..Len(start) |-> ".."] \o p

\* line 361: one list entry
IndexEntry(r, base) ==
    [title |-> r.title, link |-> RelPath(Resolve(r.path), Resolve(base))]

\* lines 349-354: by_domain[domain].append(result), domains in first-seen order
AddToDomain(groups, domain, entry) ==
    IF \E j \in DOMAIN groups : groups[j].domain = domain
    THEN [j \in DOMAIN groups |->
            IF groups[j].domain = domain
            THEN [groups[j] EXCEPT !.entries = Append(@, entry)]
            ELSE groups[j]]
    ELSE Append(groups, [domain |-> domain, entries |-> <<entry>>])

RECURSIVE ByDomain(_, _, _)
ByDomain(rs, base, groups) ==
    IF rs = <<>> THEN groups
    ELSE ByDomain(Tail(rs), base,
                  IF Head(rs).status = "saved"
                  THEN AddToDomain(groups, Netloc(Head(rs).url), IndexEntry(Head(rs), base))
                  ELSE groups)

\* lines 345-361
index_content(rs, base) == [type |-> "index", groups |-> ByDomain(rs, base, <<>>)]

\* line 364
index_path(base) == base \o <<"index.md">>

(***************************************************************************)
(* batch_save, lines 247-377.                                              *)
(***************************************************************************)
\* lines 22 and 184-186: "./output", seen from the working directory "/"
DefaultOutputPath == <<"output">>

\* the 'path' argument when it is passed: the same directory
GivenPath == <<"output">>

\* The shapes of the 'urls' argument.  A 'links' dict has distinct keys.
ValidShapes == {"list", "links_dict"}

InvalidShapes == {"number", "string", "dict_without_links", "dict_links_not_dict"}

Args ==
    {[shape |-> "list", urls |-> u] : u \in SeqsUpTo(Urls, MaxUrls)}
    \cup {[shape |-> "links_dict", urls |-> u] :
             u \in {v \in SeqsUpTo(Urls, MaxUrls) : IsInjective(v)}}
    \cup {[shape |-> sh, urls |-> <<>>] : sh \in InvalidShapes}

NoResult == [status |-> "none"]

\* lines 262-265
InputError ==
    [status |-> "error",
     error |-> "urls must be either a list of URLs or map_links() output dictionary"]

\* lines 371-377
BatchResult(rs, base) ==
    [status |-> "success", processed |-> rs, base_path |-> base,
     total_saved |-> Cardinality({j \in DOMAIN rs : rs[j].status = "saved"}),
     total_errors |-> Cardinality({j \in DOMAIN rs : rs[j].status = "error"})]

\* lines 259-265: what the shape test does with the argument
Coerce(a) ==
    IF a.shape = "links_dict" THEN "proceed"                \* line 260
    ELSE IF a.shape = "dict_links_not_dict" THEN "raise"    \* line 260: no .keys()
    ELSE IF a.shape = "list" THEN "proceed"
    ELSE "reject"                                           \* lines 261-265

\* The directory and stem a url is saved under.
SaveKey(url, base) == <<Resolve(file_dir(url, base)), filename(url)>>

\* Whether nothing lies below the output root.
RootEmpty(f, base) ==
    \A q \in DOMAIN f : ~(IsPrefix(Resolve(base), q) /\ q # Resolve(base))

Fresh == [state |-> "fresh"]

Dirty == [state |-> "dirty"]

\* ghost: the run of saves since the empty output root, while every processed
\* url was saved under one and the same directory and stem
NextRun(r, f, url, base, step) ==
    IF step.outcome.status # "saved" THEN Dirty
    ELSE IF r.state = "fresh" /\ RootEmpty(f, base)
    THEN [state |-> "clean", key |-> SaveKey(url, base),
          names |-> <<Last(step.outcome.path)>>]
    ELSE IF r.state = "clean" /\ r.key = SaveKey(url, base)
    THEN [r EXCEPT !.names = Append(@, Last(step.outcome.path))]
    ELSE Dirty

\* lines 258-271: the shape test, then base_path = path if path else get_filepath()
Call ==
    /\ pc \in {"idle", "returned", "raised"}
    /\ batch < MaxBatches
    /\ \E a \in Args, given \in BOOLEAN, denied \in BOOLEAN :
         LET made == IF given THEN [ok |-> TRUE, fs |-> fs, error |-> ""]
                     ELSE makedirs(fs, DefaultOutputPath, denied)    \* line 189
         IN  /\ submitted + Len(a.urls) <= MaxTotalUrls
             /\ shape' = (IF a.shape \in ValidShapes THEN "list" ELSE a.shape)
             /\ batch' = batch + 1
             /\ submitted' = submitted + Len(a.urls)
             /\ fs0' = fs
             /\ i' = 1
             /\ results' = <<>>
             /\ trace' = <<>>
             /\ run' = run
             /\ indexWrite' = "none"
             /\ IF Coerce(a) = "reject"
                THEN /\ pc' = "returned"
                     /\ ret' = InputError
                     /\ urls' = <<>>
                     /\ base_path' = <<>>
                     /\ fs' = fs
                ELSE IF Coerce(a) = "raise"
                THEN /\ pc' = "raised"
                     /\ ret' = NoResult
                     /\ urls' = <<>>
                     /\ base_path' = <<>>
                     /\ fs' = fs
                ELSE IF ~made.ok
                THEN /\ pc' = "raised"
                     /\ ret' = NoResult
                     /\ urls' = a.urls
                     /\ base_path' = <<>>
                     /\ fs' = made.fs
                ELSE /\ pc' = (IF a.urls = <<>> THEN "index" ELSE "loop")
                     /\ ret' = NoResult
                     /\ urls' = a.urls
                     /\ base_path' = (IF given THEN GivenPath ELSE DefaultOutputPath)
                     /\ fs' = made.fs
    /\ UNCHANGED mlVars

\* a handler that swallows the exception without recording it
record_saved_only(rs, outcome) ==
    IF outcome.status = "saved" THEN Append(rs, outcome) ELSE rs

\* lines 329 and 337: results.append(...)
record(rs, outcome) == Append(rs, outcome)

\* lines 273-341: one url of the for loop
ProcessUrl ==
    /\ pc = "loop"
    /\ \E fetch \in FetchResults(urls[i]), denied \in BOOLEAN, wr \in WriteResults :
         LET step == SaveOne(fs, urls[i], base_path, fetch, denied, wr)
         IN  /\ fs' = step.fs
             /\ results' = record(results, step.outcome)
             /\ trace' = Append(trace, [fetch |-> fetch, failed |-> step.failed])
             /\ run' = NextRun(run, fs, urls[i], base_path, step)
    /\ i' = i + 1
    /\ pc' = IF i = Len(urls) THEN "index" ELSE "loop"
    /\ UNCHANGED <<shape, urls, base_path, ret, batch, submitted, fs0, indexWrite>>
    /\ UNCHANGED mlVars

\* lines 343-377: the index is written, a failure of it is printed, and the
\* result is returned
WriteIndex ==
    /\ pc = "index"
    /\ \E wr \in WriteResults :
         /\ fs' = write_file(fs, Resolve(index_path(base_path)),
                             index_content(results, base_path), wr).fs
         /\ indexWrite' = wr
    /\ ret' = BatchResult(results, base_path)
    /\ pc' = "returned"
    /\ UNCHANGED <<shape, urls, base_path, i, results, batch, submitted, fs0, trace, run>>
    /\ UNCHANGED mlVars

\* The file system a run starts from: nothing but "/".
EmptyFs == [q \in {} |-> DirEntry]

Init ==
    /\ fs = EmptyFs
    /\ pc = "idle"
    /\ shape = "list"
    /\ urls = <<>>
    /\ base_path = <<>>
    /\ i = 1
    /\ results = <<>>
    /\ ret = NoResult
    /\ batch = 0
    /\ submitted = 0
    /\ fs0 = fs
    /\ trace = <<>>
    /\ run = Fresh
    /\ indexWrite = "none"
    /\ anchors = <<>>
    /\ k = 1
    /\ links = <<>>
    /\ mlpc = "idle"
    /\ mlret = NoResult

Next == Call \/ ProcessUrl \/ WriteIndex

Spec == Init /\ [][Next]_vars

(***************************************************************************)
(* map_links, lines 195-242.  An href and an anchor text are sequences of  *)
(* characters.                                                             *)
(***************************************************************************)
StartsWith(str, prefix) == IsPrefix(prefix, str)

\* 'sub in str'
Contains(str, sub) ==
    \E j \in 0..(Len(str) - Len(sub)) : SubSeq(str, j + 1, j + Len(sub)) = sub

\* str.strip()
RECURSIVE LStrip(_)
LStrip(str) == IF str # <<>> /\ Head(str) = " " THEN LStrip(Tail(str)) ELSE str

RECURSIVE RStrip(_)
RStrip(str) == IF str # <<>> /\ Last(str) = " " THEN RStrip(Front(str)) ELSE str

Strip(str) == RStrip(LStrip(str))

Http == <<"h", "t", "t", "p">>

YoutubeCom == <<"y", "o", "u", "t", "u", "b", "e", ".", "c", "o", "m">>

YoutuBe == <<"y", "o", "u", "t", "u", ".", "b", "e">>

\* line 234: the test an href must pass to be kept
keeps(href) ==
    StartsWith(href, Http) /\ ~Contains(href, YoutubeCom) /\ ~Contains(href, YoutuBe)

\* line 235: links[href] = value, on a dict kept in insertion order
DictSet(d, key, value) ==
    IF \E j \in DOMAIN d : d[j].key = key
    THEN [j \in DOMAIN d |-> IF d[j].key = key THEN [key |-> key, value |-> value] ELSE d[j]]
    ELSE Append(d, [key |-> key, value |-> value])

\* line 235: a.text.strip() or href
link_text(a) == IF Strip(a.text) = <<>> THEN a.href ELSE Strip(a.text)

SchemeSep == <<":", "/", "/">>

Site == <<"a", ".", "c", "o">>

Hrefs ==
    { Http \o SchemeSep \o Site,                                  \* http://a.co
      Http \o <<"s">> \o SchemeSep \o Site,                       \* https://a.co
      <<"/", "a">>,                                               \* /a
      Http \o <<"d", ".", "h", "t", "m", "l">>,                   \* httpd.html
      Http \o <<"s">> \o SchemeSep \o YoutubeCom \o <<"/", "w">>, \* https://youtube.com/w
      Http \o SchemeSep \o YoutuBe \o <<"/", "w">>,               \* http://youtu.be/w
      <<"f", "t", "p">> \o SchemeSep \o Site,                     \* ftp://a.co
      Http \o SchemeSep \o Site \o <<"/", "?">> \o YoutuBe }      \* http://a.co/?youtu.be

Texts == { <<>>, <<" ">>, <<" ", "H", "i", " ">> }

Anchors == [href : Hrefs, text : Texts]

\* lines 227-229 and 241-242: the page is fetched and parsed, or the call
\* returns the error
MapLinksFetch ==
    /\ mlpc = "idle"
    /\ \E page \in SeqsUpTo(Anchors, MaxAnchors), ok \in BOOLEAN :
         IF ok
         THEN /\ anchors' = page
              /\ mlpc' = "scan"
              /\ mlret' = NoResult
         ELSE /\ anchors' = <<>>
              /\ mlpc' = "returned"
              /\ mlret' = [status |-> "error", error |-> "ConnectionError"]
    /\ k' = 1
    /\ links' = <<>>
    /\ UNCHANGED bsVars

\* lines 232-235: one anchor of the loop
MapLinksScan ==
    /\ mlpc = "scan"
    /\ k <= Len(anchors)
    /\ links' = IF keeps(anchors[k].href)
                THEN DictSet(links, anchors[k].href, link_text(anchors[k]))
                ELSE links
    /\ k' = k + 1
    /\ UNCHANGED <<anchors, mlpc, mlret>>
    /\ UNCHANGED bsVars

\* lines 237-240
MapLinksReturn ==
    /\ mlpc = "scan"
    /\ k > Len(anchors)
    /\ mlret' = [status |-> "success", links |-> links]
    /\ mlpc' = "returned"
    /\ UNCHANGED <<anchors, k, links>>
    /\ UNCHANGED bsVars

NextLinks == MapLinksFetch \/ MapLinksScan \/ MapLinksReturn

SpecLinks == Init /\ [][NextLinks]_vars


(***************************************************************************)
(* Properties.                                                             *)
(***************************************************************************)
Ended == pc \in {"returned", "raised"}

Completed == pc = "returned" /\ ret.status = "success"

SavedIn(rs) == {j \in DOMAIN rs : rs[j].status = "saved"}

IsDocument(f, p) == IsFile(f, p) /\ f[p].content.type = "doc"

\* C1: document files are write-once: a document is only ever written to a
\* path that did not exist, and a document file keeps its content in every
\* later step (the index.md write and later batches included).
C1_DocumentsWriteOnce ==
    [][ /\ \A p \in DOMAIN fs' :
             (IsDocument(fs', p) /\ (p \notin DOMAIN fs \/ fs[p] # fs'[p]))
                 => p \notin DOMAIN fs
        /\ \A p \in DOMAIN fs :
             IsDocument(fs, p) => (p \in DOMAIN fs' /\ fs'[p] = fs[p]) ]_vars

\* C2: when batch_save returns, every saved outcome has a non-empty path that
\* names an existing file below <output root>/<domain_dir>.
C2_SavedPathUnderRoot ==
    Completed =>
        \A j \in SavedIn(results) :
            /\ results[j].path # <<>>
            /\ IsFile(fs, Resolve(results[j].path))
            /\ IsPrefix(Resolve(base_path) \o <<domain_dir(results[j].url)>>,
                        Resolve(results[j].path))

\* C3: once the loop is entered the call never raises; the outcomes are one
\* per processed url, in input order; a url that failed at any stage has
\* status error with a message; at the return 'processed' has an outcome for
\* each input url.
C3_OneOutcomePerUrl ==
    /\ pc = "raised" => results = <<>>
    /\ pc \in {"loop", "index"} \/ Completed =>
         /\ Len(results) = (IF pc = "loop" THEN i - 1 ELSE Len(urls))
         /\ Len(trace) = Len(results)
         /\ \A j \in DOMAIN results :
              /\ results[j].url = urls[j]
              /\ trace[j].failed # "none" =>
                   (results[j].status = "error" /\ results[j].error # "")
    /\ Completed => (ret.processed = results /\ Len(ret.processed) = Len(urls))

\* a returned batch of two urls whose first fetch raised and whose second
\* url was saved
C3_ErrorThenSaved ==
    /\ Completed
    /\ Len(urls) = 2
    /\ trace[1].failed = "fetch"
    /\ results[1].status = "error"
    /\ results[2].status = "saved"

\* C4: a url whose fetch did not end in a 2xx response (non-2xx response,
\* network failure, invalid url) has status error, and no document is written
\* for it.
C4_FetchErrorIsError ==
    /\ \A j \in DOMAIN results :
         trace[j].fetch \in {"http_error", "network_failure", "invalid_url"}
             => results[j].status = "error"
    /\ \A u \in Range(urls) :
         (\A j \in DOMAIN results : results[j].url = u => trace[j].fetch # "ok")
             => \A p \in DOMAIN fs :
                  (IsDocument(fs, p) /\ fs[p].content.url = u)
                      => (p \in DOMAIN fs0 /\ fs0[p] = fs[p])

RECURSIVE AllEntries(_)
AllEntries(groups) ==
    IF groups = <<>> THEN <<>> ELSE Head(groups).entries \o AllEntries(Tail(groups))

\* C5: after a call on well-formed input, <output root>/index.md exists and
\* lists exactly the saved outcomes of that call (stated for the calls whose
\* index write the environment let through).
C5_IndexOfLatestBatch ==
    (Completed /\ indexWrite = "ok") =>
        LET p == Resolve(base_path) \o <<"index.md">>
        IN  /\ IsFile(fs, p)
            /\ fs[p].content.type = "index"
            /\ Len(AllEntries(fs[p].content.groups)) = Cardinality(SavedIn(results))
            /\ \A j \in SavedIn(results) :
                 \E e \in Range(AllEntries(fs[p].content.groups)) :
                     /\ e.title = results[j].title
                     /\ e.link = RelPath(Resolve(results[j].path), Resolve(base_path))

\* C6: an argument of any other shape than a list or a 'links' dict gets the
\* single error result: nothing is raised, fetched or created; a list or
\* 'links' dict is never rejected.
C6_OtherShapesRejected ==
    Ended =>
        /\ shape \in InvalidShapes =>
             /\ pc = "returned"
             /\ ret.status = "error"
             /\ results = <<>>
             /\ fs = fs0
        /\ shape = "list" => ~(pc = "returned" /\ ret.status = "error")

\* C7: every call returns a result, no exception leaves it; the result of a
\* call on a list or 'links' dict has status success whatever failed, and
\* carries total_saved and total_errors, which count the saved and error
\* outcomes of 'processed' and add up to the number of input urls.
C7_AlwaysCountedResult ==
    Ended =>
        /\ pc = "returned"
        /\ shape = "list" =>
             /\ ret.status = "success"
             /\ {"processed", "total_saved", "total_errors"} \subseteq DOMAIN ret
             /\ ret.total_saved = Cardinality(SavedIn(ret.processed))
             /\ ret.total_errors
                  = Cardinality(DOMAIN ret.processed \ SavedIn(ret.processed))
             /\ ret.total_saved + ret.total_errors = Len(urls)

\* the n-th name of the order stem.md, stem_1.md, stem_2.md, ...
Candidate(stem, n) ==
    IF n = 0 THEN stem \o ".md" ELSE stem \o "_" \o ToString(n) \o ".md"

\* a step that saved a document chose the first candidate name that did not
\* exist in its directory before the step
FirstUnusedChosen ==
    (Len(results') = Len(results) + 1 /\ Last(results').status = "saved") =>
        LET r == Last(results')
            dir == Parent(Resolve(r.path))
            stem == filename(r.url)
        IN  \E n \in 0..Cardinality(DOMAIN fs) :
                /\ Last(r.path) = Candidate(stem, n)
                /\ ~Exists(fs, dir \o <<Candidate(stem, n)>>)
                /\ \A m \in 0..(n - 1) : Exists(fs, dir \o <<Candidate(stem, m)>>)

\* while every url processed since the empty output root was saved under one
\* directory and stem, the files written are stem.md, stem_1.md, ... in order
SameStemRunNamed ==
    run.state = "clean" =>
        \A j \in DOMAIN run.names : run.names[j] = Candidate(run.key[2], j - 1)

\* C8: collision resolution picks the first unused name of stem.md,
\* stem_1.md, stem_2.md, ...; k saves of one directory and stem into an empty
\* output root write stem.md, ..., stem_(k-1).md in that order.
C8_FirstUnusedName == [][FirstUnusedChosen]_vars /\ []SameStemRunNamed

\* three saves of one directory and stem, spread over two calls, the third
\* written as x_2.md
C8_ThreeSavesOfOneStem ==
    /\ run.state = "clean"
    /\ Len(run.names) = 3
    /\ run.names[3] = "x_2.md"
    /\ batch = 2

HttpScheme == Http \o SchemeSep

HttpsScheme == Http \o <<"s">> \o SchemeSep

\* C9: every key of the returned links starts with http:// or https:// and
\* contains neither youtube.com nor youtu.be.
C9_OnlyAbsoluteUrls ==
    (mlpc = "returned" /\ mlret.status = "success") =>
        \A j \in DOMAIN mlret.links :
            /\ StartsWith(mlret.links[j].key, HttpScheme)
                 \/ StartsWith(mlret.links[j].key, HttpsScheme)
            /\ ~Contains(mlret.links[j].key, YoutubeCom)
            /\ ~Contains(mlret.links[j].key, YoutuBe)

\* C10: when a call returns, the files it added (index.md aside) are exactly
\* the paths of its saved outcomes: a url with status error left no file.
C10_ErrorLeavesNoFile ==
    Completed =>
        LET index == Resolve(base_path) \o <<"index.md">>
        IN  {p \in DOMAIN fs \ DOMAIN fs0 : IsFile(fs, p)} \ {index}
              = {Resolve(results[j].path) : j \in SavedIn(results)} \ {index}

====
